---- MODULE Spec2Model ----
(***************************************************************************)
(* kmsctl: a command line tool over a key-management service (aliases and  *)
(* keys) and an object store (buckets and objects).  One behaviour is one   *)
(* invocation of the tool: the provider's state and the local file system   *)
(* are drawn in the initial state, one command is picked with its options,  *)
(* and the handler runs call by call to its return.                         *)
(*                                                                          *)
(* Strings are sequences of one-character strings, so that the string       *)
(* functions of the handlers (TrimLeft, TrimPrefix, HasSuffix, Contains,    *)
(* Base, Dir, Sprintf) are computed as the code computes them.              *)
(***************************************************************************)
EXTENDS Integers, Sequences, FiniteSets, TLC

VARIABLES
    aliases,    \* kms: the provider's alias list, in listing order
    kmsCreated, \* kms: number of keys created by this invocation
    scheduled,  \* kms: key ids scheduled for deletion
    buckets,    \* s3: names of the existing buckets
    objects,    \* s3: bucket name -> set of object keys held
    puts,       \* s3: objects uploaded by this invocation, in order
    dirs,       \* local fs: directories created (cleaned paths)
    files,      \* local fs: files written (cleaned paths)
    cx,         \* the command and its options (cli.Context)
    pc,         \* position in the handler
    loc,        \* the handler's local variables
    calls,      \* provider and file-system calls issued so far, in order
    out,        \* formatter calls so far, in order
    result      \* what the handler returned: "none" while running

vars == <<aliases, kmsCreated, scheduled, buckets, objects, puts, dirs, files,
          cx, pc, loc, calls, out, result>>

----------------------------------------------------------------------------
(* Bounds of the model *)

MaxAliases == 2
MaxObjects == 3
MaxArgs == 1

----------------------------------------------------------------------------
(* Strings *)

SLASH == "/"

\* strings.HasPrefix
HasPrefix(s, p) ==
    /\ Len(p) <= Len(s)
    /\ SubSeq(s, 1, Len(p)) = p

\* strings.HasSuffix
HasSuffix(s, p) ==
    /\ Len(p) <= Len(s)
    /\ SubSeq(s, Len(s) - Len(p) + 1, Len(s)) = p

\* strings.TrimPrefix: s without the leading p, s itself when p is no prefix
TrimPrefix(s, p) ==
    IF HasPrefix(s, p) THEN SubSeq(s, Len(p) + 1, Len(s)) ELSE s

\* strings.Contains, for a one-character separator
Contains(s, c) == \E i \in 1..Len(s) : s[i] = c

\* the set of characters of a cutset string
Chars(cutset) == {cutset[i] : i \in 1..Len(cutset)}

\* strings.TrimLeft: s with every leading character that is in cutset removed
TrimLeft(s, cutset) ==
    LET keep == {i \in 1..Len(s) : s[i] \notin Chars(cutset)}
    IN  IF keep = {} THEN <<>>
        ELSE LET first == CHOOSE i \in keep : \A j \in keep : i <= j
             IN  SubSeq(s, first, Len(s))

\* index of the last separator of s, 0 when there is none
LastSlash(s) ==
    LET at == {i \in 1..Len(s) : s[i] = SLASH}
    IN  IF at = {} THEN 0 ELSE CHOOSE i \in at : \A j \in at : j <= i

\* fmt.Sprintf("%s/%s", a, b)
Join(a, b) == a \o <<SLASH>> \o b

----------------------------------------------------------------------------
(* File paths *)

DOT == <<".">>

RECURSIVE SplitFrom(_, _, _)
\* the elements of path s from position i on, cur being the element read so
\* far; empty elements and "." are dropped as Clean drops them
SplitFrom(s, i, cur) ==
    LET done == IF cur = <<>> \/ cur = DOT THEN <<>> ELSE <<cur>>
    IN  IF i > Len(s) THEN done
        ELSE IF s[i] = SLASH THEN done \o SplitFrom(s, i + 1, <<>>)
        ELSE SplitFrom(s, i + 1, Append(cur, s[i]))

Segments(s) == SplitFrom(s, 1, <<>>)

IsAbs(s) == Len(s) > 0 /\ s[1] = SLASH

RECURSIVE JoinSegs(_)
JoinSegs(segs) ==
    IF Len(segs) = 0 THEN <<>>
    ELSE IF Len(segs) = 1 THEN segs[1]
    ELSE segs[1] \o <<SLASH>> \o JoinSegs(Tail(segs))

\* the path of the elements segs, rooted or not
Render(abs, segs) ==
    IF Len(segs) = 0 THEN (IF abs THEN <<SLASH>> ELSE DOT)
    ELSE (IF abs THEN <<SLASH>> ELSE <<>>) \o JoinSegs(segs)

\* filepath.Clean, for paths without ".."
Clean(s) == Render(IsAbs(s), Segments(s))

\* filepath.Dir: all but the last element, cleaned
Dir(s) == Clean(SubSeq(s, 1, LastSlash(s)))

\* filepath.Base: the last element
Base(s) ==
    LET segs == SplitFrom(s, 1, <<>>)
    IN  IF s = <<>> THEN DOT
        ELSE IF Len(segs) = 0 THEN (IF IsAbs(s) THEN <<SLASH>> ELSE DOT)
        ELSE segs[Len(segs)]

\* the directories os.MkdirAll(path) leaves in place: path and its parents
MkdirAll(path) ==
    LET segs == Segments(path)
    IN  {Render(IsAbs(path), SubSeq(segs, 1, n)) : n \in 1..Len(segs)}

----------------------------------------------------------------------------
(* Regular expressions: the part of the syntax the filters of the model use *)
(* (literals, escapes, ".", "*", "^", "$"; a parenthesis opens a group)     *)

BACKSLASH == "\\"

RECURSIVE ParseFrom(_, _)
\* the items of pattern re from position i on, ending in an error item when
\* the syntax is wrong (a repetition without argument, a trailing backslash, a
\* parenthesis that is not closed or not opened)
ParseFrom(re, i) ==
    IF i > Len(re) THEN <<>>
    ELSE
      LET c == re[i]
          esc == c = BACKSLASH
          n == IF esc THEN i + 2 ELSE i + 1
          star == n <= Len(re) /\ re[n] = "*"
          kind == IF esc THEN "lit" ELSE IF c = "." THEN "any"
                  ELSE IF c = "^" THEN "bol" ELSE IF c = "$" THEN "eol" ELSE "lit"
      IN  IF c \in {"*", "(", ")"} \/ (esc /\ i = Len(re))
          THEN << [kind |-> "error", ch |-> c, star |-> FALSE] >>
          ELSE << [kind |-> kind, ch |-> IF esc THEN re[i + 1] ELSE c, star |-> star] >>
               \o ParseFrom(re, IF star THEN n + 1 ELSE n)

\* regexp.Compile: whether the pattern compiles
Compiles(re) ==
    LET items == ParseFrom(re, 1)
    IN  \A i \in 1..Len(items) : items[i].kind # "error"

RECURSIVE MatchFrom(_, _, _, _)
\* whether items j.. match s from position i on
MatchFrom(items, j, s, i) ==
    IF j > Len(items) THEN TRUE
    ELSE
      LET it == items[j]
          one == i <= Len(s) /\ (it.kind = "any" \/ (it.kind = "lit" /\ s[i] = it.ch))
      IN  IF it.kind = "bol" THEN i = 1 /\ MatchFrom(items, j + 1, s, i)
          ELSE IF it.kind = "eol" THEN i = Len(s) + 1 /\ MatchFrom(items, j + 1, s, i)
          ELSE IF it.star
               THEN MatchFrom(items, j + 1, s, i) \/ (one /\ MatchFrom(items, j, s, i + 1))
               ELSE one /\ MatchFrom(items, j + 1, s, i + 1)

\* Regexp.MatchString: the pattern matches somewhere in s
MatchString(re, s) ==
    \E i \in 1..(Len(s) + 1) : MatchFrom(ParseFrom(re, 1), 1, s, i)

----------------------------------------------------------------------------
(* Key management: aliases *)

ALIAS == <<"a", "l", "i", "a", "s", "/">>

NoTarget == "nil"

\* the names a user asks for
KeyNames == { <<"x">>, <<"a", "x">>, <<"x", "a">>, <<"X">> }

KeyIds == {"k1", "k2"}

\* kms.AliasListEntry: the provider names every alias "alias/<name>"; the
\* target key id is optional
AliasEntries ==
    [AliasName : {ALIAS \o n : n \in KeyNames}, TargetKeyId : KeyIds \cup {NoTarget}]

AliasLists == UNION {[1..n -> AliasEntries] : n \in 0..MaxAliases}

errKmsNotFound == "kms alias does not exist"

\* the comparison of getKmsAlias for one list entry
aliasMatches(x, name) == TrimLeft(x.AliasName, ALIAS) = name

\* getKmsAlias, after the listing: the index of the entry returned, 0 with
\* errKmsNotFound
getKmsAlias(list, name) ==
    LET hits == {i \in 1..Len(list) : aliasMatches(list[i], name)}
    IN  IF hits = {}
        THEN [err |-> errKmsNotFound, idx |-> 0]
        ELSE [err |-> "nil", idx |-> CHOOSE i \in hits : \A j \in hits : i <= j]

----------------------------------------------------------------------------
(* The command context and the handlers' common steps *)

NoCx ==
    [cmd |-> "none", name |-> <<>>, deletion |-> FALSE, force |-> FALSE,
     bucket |-> "", outdir |-> <<>>, flatten |-> FALSE, recursive |-> FALSE,
     filter |-> <<>>, args |-> <<>>]

NoAlias == [AliasName |-> <<>>, TargetKeyId |-> NoTarget]

NoLoc ==
    [alias |-> NoAlias, idx |-> 0, keys |-> <<>>, pi |-> 0, ki |-> 0, p |-> <<>>,
     count |-> 0, key |-> <<>>, filename |-> <<>>, fullPath |-> <<>>, skip |-> "",
     exists |-> FALSE]

\* a provider or file-system call, with what it was about and how it ended
Call(op, arg, ok) == [op |-> op, arg |-> arg, ok |-> ok]

\* the handler returns: nil is "ok"
Return(r) ==
    /\ pc' = "done"
    /\ result' = r

ProviderError == "ProviderError"

\* a nil pointer dereference ends the process in a panic
Panic == "panic"

----------------------------------------------------------------------------
(* Key management: the handlers *)

NewKeyId == "kNew"

\* the entry point of a kms command: the options of the command line
kmsCommand ==
    /\ pc = "start"
    /\ \E c \in {"getKmsAlias", "hasKmsAlias", "createKey", "deleteKey", "listKeys"},
          n \in KeyNames, d \in BOOLEAN :
          /\ (d => c = "deleteKey")
          /\ cx' = [NoCx EXCEPT !.cmd = c, !.name = n, !.deletion = d]
          /\ pc' = c
    /\ UNCHANGED <<aliases, kmsCreated, scheduled, buckets, objects, puts, dirs,
                   files, loc, calls, out, result>>

\* getKmsAlias called on its own: kmsKeys (one ListAliases call), then the
\* search of the list
resolveAlias ==
    /\ pc = "getKmsAlias"
    /\ \E ok \in BOOLEAN :
          /\ calls' = Append(calls, Call("ListAliases", <<>>, ok))
          /\ IF ~ok
             THEN /\ Return(ProviderError)
                  /\ UNCHANGED loc
             ELSE LET r == getKmsAlias(aliases, cx.name)
                  IN  /\ loc' = [loc EXCEPT !.idx = r.idx,
                                   !.alias = IF r.idx = 0 THEN NoAlias ELSE aliases[r.idx]]
                      /\ Return(IF r.err = "nil" THEN "ok" ELSE r.err)
    /\ UNCHANGED <<aliases, kmsCreated, scheduled, buckets, objects, puts, dirs,
                   files, cx, out>>

\* hasKmsAlias, after the listing: errKmsNotFound is "no", a hit is "yes"
hasKmsAlias(list, name) == getKmsAlias(list, name).err = "nil"

\* getKmsAlias with its listing: a listing that failed is returned as it is
getKmsAliasCall(ok, list, name) ==
    IF ~ok THEN [err |-> ProviderError, idx |-> 0] ELSE getKmsAlias(list, name)

\* hasKmsAlias reporting "no" for every error
hasKmsAliasOf_swallow(r) == [exists |-> r.err = "nil", err |-> "nil"]

\* hasKmsAlias, from what getKmsAlias returned: errKmsNotFound is "no"
\* without an error, any other error is handed on
hasKmsAliasOf(r) ==
    IF r.err # "nil"
    THEN IF r.err = errKmsNotFound
         THEN [exists |-> FALSE, err |-> "nil"]
         ELSE [exists |-> FALSE, err |-> r.err]
    ELSE [exists |-> TRUE, err |-> "nil"]

\* a call of hasKmsAlias: the listing, the search and the answer
hasKmsAliasCall ==
    /\ pc = "hasKmsAlias"
    /\ \E ok \in BOOLEAN :
          LET h == hasKmsAliasOf(getKmsAliasCall(ok, aliases, cx.name))
          IN  /\ calls' = Append(calls, Call("ListAliases", <<>>, ok))
              /\ loc' = [loc EXCEPT !.exists = h.exists]
              /\ Return(IF h.err = "nil" THEN "ok" ELSE h.err)
    /\ UNCHANGED <<aliases, kmsCreated, scheduled, buckets, objects, puts, dirs,
                   files, cx, out>>

\* createKey up to the check for an existing alias
createKey ==
    /\ pc = "createKey"
    /\ \E ok \in BOOLEAN :
          /\ calls' = Append(calls, Call("ListAliases", <<>>, ok))
          /\ IF ~ok
             THEN /\ Return(ProviderError)
                  /\ UNCHANGED out
             ELSE IF hasKmsAlias(aliases, cx.name)
             THEN /\ out' = Append(out, [action |-> "alias exists", alias |-> cx.name])
                  /\ Return("ok")
             ELSE /\ pc' = "createKey.CreateKey"
                  /\ UNCHANGED <<out, result>>
    /\ UNCHANGED <<aliases, kmsCreated, scheduled, buckets, objects, puts, dirs,
                   files, cx, loc>>

\* createKey: the CreateKey call
createKey_CreateKey ==
    /\ pc = "createKey.CreateKey"
    /\ \E ok \in BOOLEAN :
          /\ calls' = Append(calls, Call("CreateKey", <<>>, ok))
          /\ IF ok
             THEN /\ kmsCreated' = kmsCreated + 1
                  /\ pc' = "createKey.CreateAlias"
                  /\ UNCHANGED result
             ELSE /\ Return(ProviderError)
                  /\ UNCHANGED kmsCreated
    /\ UNCHANGED <<aliases, scheduled, buckets, objects, puts, dirs, files, cx,
                   loc, out>>

\* createKey: the CreateAlias call and the closing formatter call; the
\* provider refuses a second alias of the same name
createKey_CreateAlias ==
    /\ pc = "createKey.CreateAlias"
    /\ LET aliasName == ALIAS \o cx.name
           taken == \E i \in 1..Len(aliases) : aliases[i].AliasName = aliasName
       IN  \E ok \in (IF taken THEN {FALSE} ELSE BOOLEAN) :
             /\ calls' = Append(calls, Call("CreateAlias", aliasName, ok))
             /\ IF ok
                THEN /\ aliases' = Append(aliases,
                            [AliasName |-> aliasName, TargetKeyId |-> NewKeyId])
                     /\ out' = Append(out, [action |-> "created", alias |-> cx.name])
                     /\ Return("ok")
                ELSE /\ Return(ProviderError)
                     /\ UNCHANGED <<aliases, out>>
    /\ UNCHANGED <<kmsCreated, scheduled, buckets, objects, puts, dirs, files, cx,
                   loc>>

\* deleteKey up to the resolution of the alias
deleteKey ==
    /\ pc = "deleteKey"
    /\ \E ok \in BOOLEAN :
          /\ calls' = Append(calls, Call("ListAliases", <<>>, ok))
          /\ IF ~ok
             THEN /\ Return(ProviderError)
                  /\ UNCHANGED loc
             ELSE LET r == getKmsAlias(aliases, cx.name)
                  IN  IF r.err # "nil"
                      THEN /\ Return(r.err)
                           /\ UNCHANGED loc
                      ELSE /\ loc' = [loc EXCEPT !.idx = r.idx, !.alias = aliases[r.idx]]
                           /\ pc' = "deleteKey.DeleteAlias"
                           /\ UNCHANGED result
    /\ UNCHANGED <<aliases, kmsCreated, scheduled, buckets, objects, puts, dirs,
                   files, cx, out>>

\* the alias list without the entries named n
WithoutAlias(list, n) == SelectSeq(list, LAMBDA e : e.AliasName # n)

\* deleteKey going on to the key although DeleteAlias failed
deleteKey_DeleteAlias_unchecked ==
    /\ pc = "deleteKey.DeleteAlias"
    /\ \E ok \in BOOLEAN :
          /\ calls' = Append(calls, Call("DeleteAlias", loc.alias.AliasName, ok))
          /\ aliases' = IF ok THEN WithoutAlias(aliases, loc.alias.AliasName)
                        ELSE aliases
          /\ IF cx.deletion
             THEN /\ pc' = "deleteKey.ScheduleKeyDeletion"
                  /\ UNCHANGED <<out, result>>
             ELSE IF loc.alias.TargetKeyId = NoTarget
             THEN /\ Return(Panic)
                  /\ UNCHANGED out
             ELSE /\ out' = Append(out, [action |-> "deleted",
                                          alias |-> loc.alias.AliasName])
                  /\ Return("ok")
    /\ UNCHANGED <<kmsCreated, scheduled, buckets, objects, puts, dirs, files, cx,
                   loc>>

\* deleteKey: the DeleteAlias call; without schedule-deletion the closing
\* formatter call follows, which dereferences the target key id
deleteKey_DeleteAlias ==
    /\ pc = "deleteKey.DeleteAlias"
    /\ \E ok \in BOOLEAN :
          /\ calls' = Append(calls, Call("DeleteAlias", loc.alias.AliasName, ok))
          /\ IF ~ok
             THEN /\ Return(ProviderError)
                  /\ UNCHANGED <<aliases, out>>
             ELSE /\ aliases' = WithoutAlias(aliases, loc.alias.AliasName)
                  /\ IF cx.deletion
                     THEN /\ pc' = "deleteKey.ScheduleKeyDeletion"
                          /\ UNCHANGED <<out, result>>
                     ELSE IF loc.alias.TargetKeyId = NoTarget
                     THEN /\ Return(Panic)
                          /\ UNCHANGED out
                     ELSE /\ out' = Append(out, [action |-> "deleted",
                                                  alias |-> loc.alias.AliasName])
                          /\ Return("ok")
    /\ UNCHANGED <<kmsCreated, scheduled, buckets, objects, puts, dirs, files, cx,
                   loc>>

\* deleteKey: the ScheduleKeyDeletion call, whose input dereferences the
\* target key id, and the closing formatter call
deleteKey_ScheduleKeyDeletion ==
    /\ pc = "deleteKey.ScheduleKeyDeletion"
    /\ IF loc.alias.TargetKeyId = NoTarget
       THEN /\ Return(Panic)
            /\ UNCHANGED <<calls, scheduled, out>>
       ELSE \E ok \in BOOLEAN :
              /\ calls' = Append(calls,
                              Call("ScheduleKeyDeletion", loc.alias.TargetKeyId, ok))
              /\ IF ok
                 THEN /\ scheduled' = scheduled \cup {loc.alias.TargetKeyId}
                      /\ out' = Append(out, [action |-> "deleted",
                                              alias |-> loc.alias.AliasName])
                      /\ Return("ok")
                 ELSE /\ Return(ProviderError)
                      /\ UNCHANGED <<scheduled, out>>
    /\ UNCHANGED <<aliases, kmsCreated, buckets, objects, puts, dirs, files, cx,
                   loc>>

\* the entries listKeys emits for a list: those with a target key id
listedKeys(list) ==
    LET usable == SelectSeq(list, LAMBDA k : k.TargetKeyId # NoTarget)
    IN  [i \in 1..Len(usable) |->
            [action |-> "key", id |-> usable[i].TargetKeyId, alias |-> usable[i].AliasName]]

\* listKeys: one ListAliases call, one formatter call per usable alias
listKeys ==
    /\ pc = "listKeys"
    /\ \E ok \in BOOLEAN :
          /\ calls' = Append(calls, Call("ListAliases", <<>>, ok))
          /\ IF ~ok
             THEN /\ Return(ProviderError)
                  /\ UNCHANGED out
             ELSE /\ out' = out \o listedKeys(aliases)
                  /\ Return("ok")
    /\ UNCHANGED <<aliases, kmsCreated, scheduled, buckets, objects, puts, dirs,
                   files, cx, loc>>

----------------------------------------------------------------------------
(* Object storage: buckets and listings *)

BucketNames == {"b1", "b2"}

\* the object keys of the model, in the order the provider lists them (byte
\* order): a.b, a.t, a/ (a directory marker), a/b/t, a/t
KeyOrder ==
    << <<"a", ".", "b">>, <<"a", ".", "t">>, <<"a", "/">>,
       <<"a", "/", "b", "/", "t">>, <<"a", "/", "t">> >>

ObjectKeys == {KeyOrder[i] : i \in 1..Len(KeyOrder)}

\* what a bucket can hold at the start
Contents == {c \in SUBSET ObjectKeys : Cardinality(c) <= MaxObjects}

\* the provider's answer to ListObjects(bucket, prefix): resp.Contents
ListObjects(bucket, prefix) ==
    SelectSeq(KeyOrder, LAMBDA k : k \in objects[bucket] /\ HasPrefix(k, prefix))

\* listBucketKeys without its filter
listBucketKeys_unfiltered(contents) == contents

\* listBucketKeys, after the listing: the response without the keys ending
\* in the separator
listBucketKeys(contents) ==
    SelectSeq(contents, LAMBDA k : ~HasSuffix(k, <<SLASH>>))

\* sizeOfBucket, after the listing
sizeOfBucket(contents) == Len(listBucketKeys(contents))

\* hasBucket answering yes for every name
hasBucket_always(list, bucket) == TRUE

\* hasBucket, after the listing of the buckets
hasBucket(list, bucket) == bucket \in list

errBucketExists == "the bucket already exists"
errBucketMissing == "the bucket does not exist"
errBucketNotEmpty == "the bucket is not empty"
errRemoveFile == "failed to remove the file"

\* the entry point of a bucket command
bucketCommand ==
    /\ pc = "start"
    /\ \E c \in {"createBucket", "deleteBucket"}, n \in BucketNames, f \in BOOLEAN :
          /\ (f => c = "deleteBucket")
          /\ cx' = [NoCx EXCEPT !.cmd = c, !.bucket = n, !.force = f]
          /\ pc' = c
    /\ UNCHANGED <<aliases, kmsCreated, scheduled, buckets, objects, puts, dirs,
                   files, loc, calls, out, result>>

\* createBucket up to the check for an existing bucket
createBucket ==
    /\ pc = "createBucket"
    /\ \E ok \in BOOLEAN :
          /\ calls' = Append(calls, Call("ListBuckets", <<>>, ok))
          /\ IF ~ok THEN Return(ProviderError)
             ELSE IF hasBucket(buckets, cx.bucket) THEN Return(errBucketExists)
             ELSE pc' = "createBucket.CreateBucket" /\ UNCHANGED result
    /\ UNCHANGED <<aliases, kmsCreated, scheduled, buckets, objects, puts, dirs,
                   files, cx, loc, out>>

\* createBucket: the CreateBucket call and the closing formatter call; the
\* provider refuses a name that is taken
createBucket_CreateBucket ==
    /\ pc = "createBucket.CreateBucket"
    /\ \E ok \in (IF cx.bucket \in buckets THEN {FALSE} ELSE BOOLEAN) :
          /\ calls' = Append(calls, Call("CreateBucket", cx.bucket, ok))
          /\ IF ok
             THEN /\ buckets' = buckets \cup {cx.bucket}
                  /\ out' = Append(out, [action |-> "created", bucket |-> cx.bucket])
                  /\ Return("ok")
             ELSE /\ Return(ProviderError)
                  /\ UNCHANGED <<buckets, out>>
    /\ UNCHANGED <<aliases, kmsCreated, scheduled, objects, puts, dirs, files, cx,
                   loc>>

\* deleteBucket up to the check that the bucket exists
deleteBucket ==
    /\ pc = "deleteBucket"
    /\ \E ok \in BOOLEAN :
          /\ calls' = Append(calls, Call("ListBuckets", <<>>, ok))
          /\ IF ~ok THEN Return(ProviderError)
             ELSE IF ~hasBucket(buckets, cx.bucket) THEN Return(errBucketMissing)
             ELSE pc' = "deleteBucket.sizeOfBucket" /\ UNCHANGED result
    /\ UNCHANGED <<aliases, kmsCreated, scheduled, buckets, objects, puts, dirs,
                   files, cx, loc, out>>

\* deleteBucket: the count of the bucket's keys and the check of force
deleteBucket_sizeOfBucket ==
    /\ pc = "deleteBucket.sizeOfBucket"
    /\ \E ok \in BOOLEAN :
          /\ calls' = Append(calls, Call("ListObjects", <<>>, ok))
          /\ IF ~ok
             THEN /\ Return(ProviderError)
                  /\ UNCHANGED loc
             ELSE LET count == sizeOfBucket(ListObjects(cx.bucket, <<>>))
                  IN  /\ loc' = [loc EXCEPT !.count = count]
                      /\ IF count > 0 /\ ~cx.force THEN Return(errBucketNotEmpty)
                         ELSE IF count > 0
                         THEN pc' = "deleteBucket.listBucketKeys" /\ UNCHANGED result
                         ELSE pc' = "deleteBucket.DeleteBucket" /\ UNCHANGED result
    /\ UNCHANGED <<aliases, kmsCreated, scheduled, buckets, objects, puts, dirs,
                   files, cx, out>>

\* deleteBucket with keys to delete: the listing of the keys
deleteBucket_listBucketKeys ==
    /\ pc = "deleteBucket.listBucketKeys"
    /\ \E ok \in BOOLEAN :
          /\ calls' = Append(calls, Call("ListObjects", <<>>, ok))
          /\ IF ~ok
             THEN /\ Return(ProviderError)
                  /\ UNCHANGED loc
             ELSE LET list == listBucketKeys(ListObjects(cx.bucket, <<>>))
                  IN  /\ loc' = [loc EXCEPT !.keys = list, !.ki = 1]
                      /\ pc' = IF Len(list) = 0 THEN "deleteBucket.DeleteBucket"
                                ELSE "deleteBucket.DeleteObject"
                      /\ UNCHANGED result
    /\ UNCHANGED <<aliases, kmsCreated, scheduled, buckets, objects, puts, dirs,
                   files, cx, out>>

\* deleteBucket calling the formatter for every object it deletes
deleteBucket_DeleteObject_logged ==
    /\ pc = "deleteBucket.DeleteObject"
    /\ LET key == loc.keys[loc.ki]
       IN  \E ok \in BOOLEAN :
             /\ calls' = Append(calls, Call("DeleteObject", key, ok))
             /\ IF ~ok
                THEN /\ Return(errRemoveFile)
                     /\ UNCHANGED <<objects, loc, out>>
                ELSE /\ objects' = [objects EXCEPT ![cx.bucket] = @ \ {key}]
                     /\ out' = Append(out, [action |-> "deleted", key |-> key])
                     /\ loc' = [loc EXCEPT !.ki = @ + 1]
                     /\ pc' = IF loc.ki = Len(loc.keys) THEN "deleteBucket.DeleteBucket"
                               ELSE "deleteBucket.DeleteObject"
                     /\ UNCHANGED result
    /\ UNCHANGED <<aliases, kmsCreated, scheduled, buckets, puts, dirs, files, cx>>

\* deleteBucket: one DeleteObject call of the loop over the listed keys
deleteBucket_DeleteObject ==
    /\ pc = "deleteBucket.DeleteObject"
    /\ LET key == loc.keys[loc.ki]
       IN  \E ok \in BOOLEAN :
             /\ calls' = Append(calls, Call("DeleteObject", key, ok))
             /\ IF ~ok
                THEN /\ Return(errRemoveFile)
                     /\ UNCHANGED <<objects, loc>>
                ELSE /\ objects' = [objects EXCEPT ![cx.bucket] = @ \ {key}]
                     /\ loc' = [loc EXCEPT !.ki = @ + 1]
                     /\ pc' = IF loc.ki = Len(loc.keys) THEN "deleteBucket.DeleteBucket"
                               ELSE "deleteBucket.DeleteObject"
                     /\ UNCHANGED result
    /\ UNCHANGED <<aliases, kmsCreated, scheduled, buckets, puts, dirs, files, cx,
                   out>>

\* deleteBucket: the DeleteBucket call and the closing formatter call; the
\* provider refuses to delete a bucket that holds an object
deleteBucket_DeleteBucket ==
    /\ pc = "deleteBucket.DeleteBucket"
    /\ \E ok \in (IF objects[cx.bucket] # {} THEN {FALSE} ELSE BOOLEAN) :
          /\ calls' = Append(calls, Call("DeleteBucket", cx.bucket, ok))
          /\ IF ok
             THEN /\ buckets' = buckets \ {cx.bucket}
                  /\ out' = Append(out, [action |-> "delete", bucket |-> cx.bucket])
                  /\ Return("ok")
             ELSE /\ Return(ProviderError)
                  /\ UNCHANGED <<buckets, out>>
    /\ UNCHANGED <<aliases, kmsCreated, scheduled, objects, puts, dirs, files, cx,
                   loc>>

----------------------------------------------------------------------------
(* Download: getFiles *)

\* the output directories of the model: "./o" (the shape of the default,
\* "./secrets") and "/o"
OutDirs == { <<".", "/", "o">>, <<"/", "o">> }

\* the filters of the model: ".*" (the default), "\.t$", "b" and "(", which
\* does not compile
Filters == { <<".", "*">>, <<BACKSLASH, ".", "t", "$">>, <<"b">>, <<"(">> }

\* the path arguments of the model: "a/", "/a/b" and "a."
Prefixes == { <<"a", "/">>, <<"/", "a", "/", "b">>, <<"a", ".">> }

ArgLists == UNION {[1..n -> Prefixes] : n \in 0..MaxArgs}

errInvalidFilter == "the filter is invalid"
FsError == "FsError"

\* getPaths: the arguments, or the empty prefix when there are none
getPaths(args) == IF Len(args) <= 0 THEN << <<>> >> ELSE args

\* the entry point of the get command
getCommand ==
    /\ pc = "start"
    /\ \E b \in buckets, d \in OutDirs, fl \in BOOLEAN, r \in BOOLEAN,
          f \in Filters, a \in ArgLists :
          /\ cx' = [NoCx EXCEPT !.cmd = "getFiles", !.bucket = b, !.outdir = d,
                       !.flatten = fl, !.recursive = r, !.filter = f, !.args = a]
          /\ pc' = "getFiles"
    /\ UNCHANGED <<aliases, kmsCreated, scheduled, buckets, objects, puts, dirs,
                   files, loc, calls, out, result>>

\* getFiles creating the output directory before it looks at the filter
getFiles_mkdirFirst ==
    /\ pc = "getFiles"
    /\ \E ok \in BOOLEAN :
          /\ calls' = Append(calls, Call("MkdirAll", cx.outdir, ok))
          /\ dirs' = IF ok THEN dirs \cup MkdirAll(cx.outdir) ELSE dirs
          /\ IF ~ok THEN Return(FsError) /\ UNCHANGED loc
             ELSE IF ~Compiles(cx.filter) THEN Return(errInvalidFilter) /\ UNCHANGED loc
             ELSE /\ loc' = [loc EXCEPT !.pi = 1]
                  /\ pc' = "getFiles.listBucketKeys"
                  /\ UNCHANGED result
    /\ UNCHANGED <<aliases, kmsCreated, scheduled, buckets, objects, puts, files,
                   cx, out>>

\* getFiles up to the loop: the filter is compiled, then the output
\* directory is created
getFiles ==
    /\ pc = "getFiles"
    /\ IF ~Compiles(cx.filter)
       THEN /\ Return(errInvalidFilter)
            /\ UNCHANGED <<calls, dirs, loc>>
       ELSE \E ok \in BOOLEAN :
              /\ calls' = Append(calls, Call("MkdirAll", cx.outdir, ok))
              /\ IF ok
                 THEN /\ dirs' = dirs \cup MkdirAll(cx.outdir)
                      /\ loc' = [loc EXCEPT !.pi = 1]
                      /\ pc' = "getFiles.listBucketKeys"
                      /\ UNCHANGED result
                 ELSE /\ Return(FsError)
                      /\ UNCHANGED <<dirs, loc>>
    /\ UNCHANGED <<aliases, kmsCreated, scheduled, buckets, objects, puts, files,
                   cx, out>>

\* where a loop over paths and their entries goes once the entries of a
\* path are done: the head of the loop for the next path, or the return
AfterPath(l, head) ==
    IF l.pi < Len(getPaths(cx.args))
    THEN [pc |-> head, loc |-> [l EXCEPT !.pi = @ + 1], result |-> "none"]
    ELSE [pc |-> "done", loc |-> l, result |-> "ok"]

\* where such a loop goes once an entry is done: the body for the next
\* entry, or the next path
AfterKey(l, body, head) ==
    IF l.ki < Len(l.keys)
    THEN [pc |-> body, loc |-> [l EXCEPT !.ki = @ + 1], result |-> "none"]
    ELSE AfterPath(l, head)

\* getFiles: the head of the loop over the paths: the leading slash is
\* dropped and the keys under the path are listed
getFiles_listBucketKeys ==
    /\ pc = "getFiles.listBucketKeys"
    /\ LET p == TrimPrefix(getPaths(cx.args)[loc.pi], <<SLASH>>)
       IN  \E ok \in BOOLEAN :
             /\ calls' = Append(calls, Call("ListObjects", p, ok))
             /\ IF ~ok
                THEN /\ Return(ProviderError)
                     /\ UNCHANGED loc
                ELSE LET keys == listBucketKeys(ListObjects(cx.bucket, p))
                         l == [loc EXCEPT !.p = p, !.keys = keys, !.ki = 1,
                                          !.key = <<>>, !.skip = "", !.fullPath = <<>>]
                         to == IF Len(keys) = 0 THEN AfterPath(l, "getFiles.listBucketKeys")
                               ELSE [pc |-> "getFiles.key", loc |-> l, result |-> "none"]
                     IN  /\ pc' = to.pc
                         /\ loc' = to.loc
                         /\ result' = to.result
    /\ UNCHANGED <<aliases, kmsCreated, scheduled, buckets, objects, puts, dirs,
                   files, cx, out>>

\* getFiles without its recursion filter
skippedByRecursion_never(k, p, recursive) == FALSE

\* the recursion filter of getFiles for key k
skippedByRecursion(k, p, recursive) == Contains(k, SLASH) /\ ~recursive

\* the pattern filter of getFiles, had it matched the base name of the key
skippedByFilter_baseName(k, filter) == ~MatchString(filter, Base(k))

\* the pattern filter of getFiles for key k
skippedByFilter(k, filter) == ~MatchString(filter, k)

\* the file name getFiles builds for key k before it prefixes the output
\* directory
destName(k, outdir, flatten) ==
    IF Contains(k, SLASH) /\ flatten THEN Join(outdir, Base(k)) ELSE k

\* the path getFiles opens for key k
destPath(k, outdir, flatten) == Join(outdir, destName(k, outdir, flatten))

\* the directory getFiles creates for key k
destDir(k, outdir, flatten) == outdir \o <<SLASH>> \o Dir(destName(k, outdir, flatten))

\* a write that leaves nothing but the file it wrote
Written_alone(fs, path, content) == {[path |-> path, content |-> content]}

\* the file system with content written at path
Written(fs, path, content) ==
    {f \in fs : f.path # path} \cup {[path |-> path, content |-> content]}

\* whether the directory holding the cleaned path exists
ParentExists(ds, path) == Dir(path) \in ds \cup {DOT, <<SLASH>>}

\* getFiles: one turn of the loop over the keys: the two filters, then the
\* fetch, the directory, the file and the formatter call; any call can fail
getFiles_key ==
    /\ pc = "getFiles.key"
    /\ LET k == loc.keys[loc.ki]
           fullPath == destPath(k, cx.outdir, cx.flatten)
           dir == destDir(k, cx.outdir, cx.flatten)
           made == dirs \cup MkdirAll(dir)
           get(ok) == <<Call("GetObject", k, ok)>>
           mkdir(ok) == get(TRUE) \o <<Call("MkdirAll", dir, ok)>>
           open(ok) == mkdir(TRUE) \o <<Call("OpenFile", fullPath, ok)>>
           write(ok) == open(TRUE) \o <<Call("Write", fullPath, ok)>>
           skip == IF skippedByRecursion(k, loc.p, cx.recursive) THEN "recursion"
                   ELSE IF skippedByFilter(k, cx.filter) THEN "filter" ELSE ""
           l == [loc EXCEPT !.key = k, !.skip = skip,
                            !.fullPath = IF skip = "" THEN fullPath ELSE <<>>]
           to == AfterKey(l, "getFiles.key", "getFiles.listBucketKeys")
       IN  IF skip # ""
           THEN /\ pc' = to.pc
                /\ loc' = to.loc
                /\ result' = to.result
                /\ UNCHANGED <<calls, dirs, files, out>>
           ELSE \/ /\ calls' = calls \o get(FALSE)
                   /\ Return(ProviderError)
                   /\ loc' = l
                   /\ UNCHANGED <<dirs, files, out>>
                \/ /\ calls' = calls \o mkdir(FALSE)
                   /\ Return(FsError)
                   /\ loc' = l
                   /\ UNCHANGED <<dirs, files, out>>
                \/ /\ calls' = calls \o open(FALSE)
                   /\ Return(FsError)
                   /\ loc' = l
                   /\ dirs' = made
                   /\ UNCHANGED <<files, out>>
                \/ /\ ParentExists(made, Clean(fullPath))
                   /\ calls' = calls \o write(FALSE)
                   /\ Return(FsError)
                   /\ loc' = l
                   /\ dirs' = made
                   /\ files' = Written(files, Clean(fullPath), <<>>)
                   /\ UNCHANGED out
                \/ /\ ParentExists(made, Clean(fullPath))
                   /\ calls' = calls \o write(TRUE)
                   /\ dirs' = made
                   /\ files' = Written(files, Clean(fullPath), k)
                   /\ out' = Append(out, [action |-> "get", source |-> k,
                                           destination |-> fullPath])
                   /\ pc' = to.pc
                   /\ loc' = to.loc
                   /\ result' = to.result
    /\ UNCHANGED <<aliases, kmsCreated, scheduled, buckets, objects, puts, cx>>

----------------------------------------------------------------------------
(* Upload: putFiles *)

\* the regular files of the local tree, in the order a walk meets them:
\* d/f, d/g and f
LocalFiles == << <<"d", "/", "f">>, <<"d", "/", "g">>, <<"f">> >>

\* the path arguments of the model: the directory d, the file f, and x,
\* which does not exist
LocalArgs == { <<"d">>, <<"f">>, <<"x">> }

PutArgLists == UNION {[1..n -> LocalArgs] : n \in 0..MaxArgs}

\* expandFiles: the regular files at or under path p
expandFiles(p) ==
    SelectSeq(LocalFiles, LAMBDA f : f = p \/ HasPrefix(f, p \o <<SLASH>>))

errBucketNotFound == "the bucket: does not exist"
errNoInput == "you have not specified any files to upload"
errProcessPath == "failed to process path"
errPutFile == "failed to put the file"

\* the entry point of the put command
putCommand ==
    /\ pc = "start"
    /\ \E b \in BucketNames, fl \in BOOLEAN, a \in PutArgLists :
          /\ cx' = [NoCx EXCEPT !.cmd = "putFiles", !.bucket = b, !.flatten = fl,
                       !.args = a]
          /\ pc' = "putFiles"
    /\ UNCHANGED <<aliases, kmsCreated, scheduled, buckets, objects, puts, dirs,
                   files, loc, calls, out, result>>

\* putFiles up to the loop: the bucket has to exist and there has to be an
\* argument
putFiles ==
    /\ pc = "putFiles"
    /\ \E ok \in BOOLEAN :
          /\ calls' = Append(calls, Call("ListBuckets", <<>>, ok))
          /\ IF ~ok THEN Return(ProviderError) /\ UNCHANGED loc
             ELSE IF ~hasBucket(buckets, cx.bucket)
             THEN Return(errBucketNotFound) /\ UNCHANGED loc
             ELSE IF Len(cx.args) <= 0 THEN Return(errNoInput) /\ UNCHANGED loc
             ELSE /\ loc' = [loc EXCEPT !.pi = 1]
                  /\ pc' = "putFiles.expandFiles"
                  /\ UNCHANGED result
    /\ UNCHANGED <<aliases, kmsCreated, scheduled, buckets, objects, puts, dirs,
                   files, cx, out>>

\* putFiles: the head of the loop over the paths: the path is expanded into
\* its files; a path that does not exist cannot be expanded
putFiles_expandFiles ==
    /\ pc = "putFiles.expandFiles"
    /\ LET p == getPaths(cx.args)[loc.pi]
           list == expandFiles(p)
       IN  \E ok \in (IF Len(list) = 0 THEN {FALSE} ELSE BOOLEAN) :
             /\ calls' = Append(calls, Call("expandFiles", p, ok))
             /\ IF ~ok
                THEN /\ Return(errProcessPath)
                     /\ UNCHANGED loc
                ELSE /\ loc' = [loc EXCEPT !.p = p, !.keys = list, !.ki = 1]
                     /\ pc' = "putFiles.putFile"
                     /\ UNCHANGED result
    /\ UNCHANGED <<aliases, kmsCreated, scheduled, buckets, objects, puts, dirs,
                   files, cx, out>>

\* the key putFiles uploads a file under
keyName(filename, flatten) == IF flatten THEN Base(filename) ELSE filename

\* putFiles going on to the next file when putFile fails
putFiles_putFile_goesOn ==
    /\ pc = "putFiles.putFile"
    /\ LET filename == loc.keys[loc.ki]
           key == keyName(filename, cx.flatten)
           l == [loc EXCEPT !.key = key, !.filename = filename]
           to == AfterKey(l, "putFiles.putFile", "putFiles.expandFiles")
       IN  /\ \/ /\ calls' = Append(calls, Call("Open", filename, FALSE))
                 /\ UNCHANGED <<objects, puts, out>>
              \/ /\ calls' = calls \o <<Call("Open", filename, TRUE),
                                         Call("PutObject", key, FALSE)>>
                 /\ UNCHANGED <<objects, puts, out>>
              \/ /\ calls' = calls \o <<Call("Open", filename, TRUE),
                                         Call("PutObject", key, TRUE)>>
                 /\ objects' = [objects EXCEPT ![cx.bucket] = @ \cup {key}]
                 /\ puts' = Append(puts, [bucket |-> cx.bucket, key |-> key,
                                           path |-> filename])
                 /\ out' = Append(out, [action |-> "put", path |-> filename,
                                         key |-> key])
           /\ pc' = to.pc
           /\ loc' = to.loc
           /\ result' = to.result
    /\ UNCHANGED <<aliases, kmsCreated, scheduled, buckets, dirs, files, cx>>

\* putFiles: one turn of the loop over the files: putFile (the file is
\* opened, then uploaded) and the formatter call
putFiles_putFile ==
    /\ pc = "putFiles.putFile"
    /\ LET filename == loc.keys[loc.ki]
           key == keyName(filename, cx.flatten)
           l == [loc EXCEPT !.key = key, !.filename = filename]
           to == AfterKey(l, "putFiles.putFile", "putFiles.expandFiles")
       IN  \/ /\ calls' = Append(calls, Call("Open", filename, FALSE))
              /\ Return(errPutFile)
              /\ loc' = l
              /\ UNCHANGED <<objects, puts, out>>
           \/ /\ calls' = calls \o <<Call("Open", filename, TRUE),
                                      Call("PutObject", key, FALSE)>>
              /\ Return(errPutFile)
              /\ loc' = l
              /\ UNCHANGED <<objects, puts, out>>
           \/ /\ calls' = calls \o <<Call("Open", filename, TRUE),
                                      Call("PutObject", key, TRUE)>>
              /\ objects' = [objects EXCEPT ![cx.bucket] = @ \cup {key}]
              /\ puts' = Append(puts, [bucket |-> cx.bucket, key |-> key,
                                        path |-> filename])
              /\ out' = Append(out, [action |-> "put", path |-> filename, key |-> key])
              /\ pc' = to.pc
              /\ loc' = to.loc
              /\ result' = to.result
    /\ UNCHANGED <<aliases, kmsCreated, scheduled, buckets, dirs, files, cx>>

----------------------------------------------------------------------------
(* Inline edit: editFile and inlineEditFile *)

\* the keys named on the command line of an edit: a.t and a/t
EditArgs == { <<"a", ".", "t">>, <<"a", "/", "t">> }

EditArgLists == UNION {[1..n -> EditArgs] : n \in 0..MaxArgs}

\* the random endings ioutil.TempFile can give a name
TempEndings == {"0", "1"}

\* the name of a temporary file for filename: the directory /tmp, the
\* pattern filename.XXXXXXXX and a random ending
TempName(filename, ending) ==
    Join(<<"/", "t", "m", "p">>,
         filename \o <<".", "X", "X", "X", "X", "X", "X", "X", "X">> \o <<ending>>)

errRetrieve == "unable to retrieve the file"
errEdit == "unable to edit the file"

\* the entry point of the edit command
editCommand ==
    /\ pc = "start"
    /\ \E b \in buckets, a \in EditArgLists :
          /\ cx' = [NoCx EXCEPT !.cmd = "editFile", !.bucket = b, !.args = a]
          /\ pc' = "editFile"
    /\ UNCHANGED <<aliases, kmsCreated, scheduled, buckets, objects, puts, dirs,
                   files, loc, calls, out, result>>

\* editFile up to the loop over the arguments: the editor is looked up
editFile ==
    /\ pc = "editFile"
    /\ IF Len(cx.args) = 0
       THEN /\ Return("ok")
            /\ UNCHANGED loc
       ELSE /\ loc' = [loc EXCEPT !.pi = 1]
            /\ pc' = "editFile.getFileBlob"
            /\ UNCHANGED result
    /\ UNCHANGED <<aliases, kmsCreated, scheduled, buckets, objects, puts, dirs,
                   files, cx, calls, out>>

\* editFile: the head of the loop: the content of the object is retrieved;
\* the provider has no content for a key the bucket does not hold
editFile_getFileBlob ==
    /\ pc = "editFile.getFileBlob"
    /\ LET x == cx.args[loc.pi]
       IN  \E ok \in (IF x \in objects[cx.bucket] THEN BOOLEAN ELSE {FALSE}) :
             /\ calls' = Append(calls, Call("GetObject", x, ok))
             /\ IF ok
                THEN /\ loc' = [loc EXCEPT !.key = x, !.filename = <<>>]
                     /\ pc' = "inlineEditFile"
                     /\ UNCHANGED result
                ELSE /\ Return(errRetrieve)
                     /\ UNCHANGED loc
    /\ UNCHANGED <<aliases, kmsCreated, scheduled, buckets, objects, puts, dirs,
                   files, cx, out>>

\* inlineEditFile: the temporary file is created under a name that is free;
\* from here on its removal is deferred to the return
inlineEditFile ==
    /\ pc = "inlineEditFile"
    /\ \/ /\ calls' = Append(calls, Call("TempFile", loc.key, FALSE))
          /\ Return(errEdit)
          /\ UNCHANGED <<files, loc>>
       \/ \E e \in TempEndings :
             LET name == TempName(loc.key, e)
             IN  /\ \A f \in files : f.path # name
                 /\ calls' = Append(calls, Call("TempFile", name, TRUE))
                 /\ files' = files \cup {[path |-> name, content |-> <<>>]}
                 /\ loc' = [loc EXCEPT !.filename = name]
                 /\ pc' = "inlineEditFile.Write"
                 /\ UNCHANGED result
    /\ UNCHANGED <<aliases, kmsCreated, scheduled, buckets, objects, puts, dirs,
                   cx, out>>

\* the deferred function of inlineEditFile left out
deferredRemove_never(fs, name) == fs

\* the deferred function of inlineEditFile: os.Remove of the temporary
\* file, run at every return after the file was created
deferredRemove(fs, name) == {f \in fs : f.path # name}

\* inlineEditFile: the content is written to the temporary file and the
\* file is closed
inlineEditFile_Write ==
    /\ pc = "inlineEditFile.Write"
    /\ \E ok \in BOOLEAN :
          /\ calls' = Append(calls, Call("Write", loc.filename, ok))
          /\ IF ok
             THEN /\ files' = Written(files, loc.filename, loc.key)
                  /\ pc' = "inlineEditFile.Run"
                  /\ UNCHANGED result
             ELSE /\ files' = deferredRemove(files, loc.filename)
                  /\ Return(errEdit)
    /\ UNCHANGED <<aliases, kmsCreated, scheduled, buckets, objects, puts, dirs,
                   cx, loc, out>>

\* inlineEditFile: the editor runs on the temporary file; whatever it
\* leaves in the file, inlineEditFile returns, and editFile goes on to the
\* next argument when the editor succeeded
inlineEditFile_Run ==
    /\ pc = "inlineEditFile.Run"
    /\ \E ok \in BOOLEAN :
          /\ calls' = Append(calls, Call("Run", loc.filename, ok))
          /\ files' = deferredRemove(files, loc.filename)
          /\ IF ok
             THEN LET to == AfterPath(loc, "editFile.getFileBlob")
                  IN  /\ pc' = to.pc
                      /\ loc' = to.loc
                      /\ result' = to.result
             ELSE /\ Return(errEdit)
                  /\ UNCHANGED loc
    /\ UNCHANGED <<aliases, kmsCreated, scheduled, buckets, objects, puts, dirs,
                   cx, out>>

----------------------------------------------------------------------------
(* Specification of the kms commands *)

\* what every invocation starts from, the provider's state apart
InitCommand ==
    /\ kmsCreated = 0
    /\ scheduled = {}
    /\ puts = <<>>
    /\ dirs = {}
    /\ files = {}
    /\ cx = NoCx
    /\ pc = "start"
    /\ loc = NoLoc
    /\ calls = <<>>
    /\ out = <<>>
    /\ result = "none"

InitKms ==
    /\ aliases \in AliasLists
    /\ buckets = {}
    /\ objects = [b \in BucketNames |-> {}]
    /\ InitCommand

NextKms ==
    \/ kmsCommand
    \/ resolveAlias
    \/ hasKmsAliasCall
    \/ createKey
    \/ createKey_CreateKey
    \/ createKey_CreateAlias
    \/ deleteKey
    \/ deleteKey_DeleteAlias
    \/ deleteKey_ScheduleKeyDeletion
    \/ listKeys

SpecKms == InitKms /\ [][NextKms]_vars

----------------------------------------------------------------------------
(* Claims about the alias resolver *)

\* the aliases of the provider's list named "alias/<name>"
Named(name) == {i \in 1..Len(aliases) : aliases[i].AliasName = ALIAS \o name}

\* getKmsAlias has returned from a listing that succeeded
Resolved == cx.cmd = "getKmsAlias" /\ pc = "done" /\ result # ProviderError

\* C1: when the list holds an alias named "alias/X" with a target key id,
\* resolveAlias(X) returns an entry of that name; when it holds no alias of
\* that name, resolveAlias(X) fails with errKmsNotFound.
C1_ResolveByName ==
    Resolved =>
        /\ (\E i \in Named(cx.name) : aliases[i].TargetKeyId # NoTarget)
              => (result = "ok" /\ loc.idx \in Named(cx.name))
        /\ (Named(cx.name) = {}) => result = errKmsNotFound

\* C10: an entry resolveAlias(name) returns has the name "alias/" + name
\* (the prefix stripped once, compared character for character) and is the
\* first entry of the list of that name.
C10_ExactFirstMatch ==
    (Resolved /\ result = "ok") =>
        /\ TrimPrefix(loc.alias.AliasName, ALIAS) = cx.name
        /\ \A j \in 1..(loc.idx - 1) : TrimPrefix(aliases[j].AliasName, ALIAS) # cx.name

----------------------------------------------------------------------------
(* Specification of the bucket commands *)

\* the provider's buckets and their objects: a bucket that does not exist
\* holds nothing
Stores == [BucketNames -> Contents]

InitBucket ==
    /\ aliases = <<>>
    /\ buckets \in SUBSET BucketNames
    /\ objects \in Stores
    /\ \A b \in BucketNames \ buckets : objects[b] = {}
    /\ InitCommand

NextBucket ==
    \/ bucketCommand
    \/ createBucket
    \/ createBucket_CreateBucket
    \/ deleteBucket
    \/ deleteBucket_sizeOfBucket
    \/ deleteBucket_listBucketKeys
    \/ deleteBucket_DeleteObject
    \/ deleteBucket_DeleteBucket

SpecBucket == InitBucket /\ [][NextBucket]_vars

----------------------------------------------------------------------------
(* Claims about bucket deletion *)

\* the calls of one operation issued so far
Issued(op) == {i \in 1..Len(calls) : calls[i].op = op}

\* C4: deleteBucket with force: when the delete-bucket call is issued the
\* bucket holds no object, and no delete-object call is issued for a bucket
\* that holds no object.
C4_ForceEmptiesBucketFirst ==
    (cx.cmd = "deleteBucket" /\ cx.force /\ Issued("DeleteBucket") # {}) =>
        /\ objects[cx.bucket] = {}
        /\ \A i \in Issued("DeleteObject") : calls[i].ok

\* C5: deleteBucket without force on a bucket that holds an object issues no
\* delete-object and no delete-bucket call, and returns the bucket-not-empty
\* error once its listings have succeeded.
C5_NoForceRefusesNonEmpty ==
    (cx.cmd = "deleteBucket" /\ ~cx.force /\ cx.bucket \in buckets
        /\ objects[cx.bucket] # {}) =>
        /\ Issued("DeleteObject") = {}
        /\ Issued("DeleteBucket") = {}
        /\ (pc = "done" /\ \A i \in 1..Len(calls) : calls[i].ok)
              => result = errBucketNotEmpty

----------------------------------------------------------------------------
(* Specification of the get command *)

InitGet ==
    /\ aliases = <<>>
    /\ buckets = {"b1"}
    /\ objects \in Stores
    /\ \A b \in BucketNames \ buckets : objects[b] = {}
    /\ InitCommand

NextGet ==
    \/ getCommand
    \/ getFiles
    \/ getFiles_listBucketKeys
    \/ getFiles_key

SpecGet == InitGet /\ [][NextGet]_vars

----------------------------------------------------------------------------
(* Claims about the download *)

\* the keys the get-object calls issued so far were for
Fetched == {calls[i].arg : i \in Issued("GetObject")}

\* the successful listings of the download so far
Listings == {i \in Issued("ListObjects") : calls[i].ok}

\* C2: a key is skipped by the recursion filter exactly when recursive is
\* off and the key's remainder after the prefix holds a separator; with the
\* prefix "a/", recursive off, the default filter and the keys a/t and a/b/t,
\* exactly a/t is fetched.
C2_RecursionFilter ==
    cx.cmd = "getFiles" =>
        /\ (loc.key # <<>>) =>
              ((loc.skip = "recursion") <=>
                 (~cx.recursive /\ Contains(TrimPrefix(loc.key, loc.p), SLASH)))
        /\ (/\ pc = "done" /\ result = "ok" /\ ~cx.recursive
            /\ cx.args = << <<"a", "/">> >> /\ cx.filter = <<".", "*">>
            /\ objects[cx.bucket] = {<<"a", "/", "t">>, <<"a", "/", "b", "/", "t">>})
              => Fetched = {<<"a", "/", "t">>}

\* the path the download of key k is to write: the base name under the
\* output directory when flattening a key with a separator, the key under
\* the output directory otherwise
Destination(k) ==
    IF cx.flatten /\ Contains(k, SLASH) THEN Join(cx.outdir, Base(k))
    ELSE Join(cx.outdir, k)

\* C3: the file opened for a fetched key k is D/<base of k> when flattening
\* a key with a separator and D/k otherwise, and its parent directory has
\* been created before the file is opened.
C3_DestinationPath ==
    cx.cmd = "getFiles" =>
        \A i \in Issued("OpenFile") :
            /\ Clean(calls[i].arg) = Clean(Destination(calls[i - 2].arg))
            /\ \E j \in 1..(i - 1) :
                  /\ calls[j].op = "MkdirAll" /\ calls[j].ok
                  /\ Clean(calls[j].arg) = Dir(Clean(calls[i].arg))

\* a listing of the download has succeeded: loc.p and loc.keys are its
\* prefix and its result
Listed == cx.cmd = "getFiles" /\ \E i \in Issued("ListObjects") : calls[i].ok

\* the position of key k in sequence q, 0 when it is not in it
PosIn(q, k) ==
    IF \E i \in 1..Len(q) : q[i] = k THEN CHOOSE i \in 1..Len(q) : q[i] = k ELSE 0

\* C6: the sequence listBucketKeys returns holds no key ending with the
\* separator, holds every other entry of the listing response, and keeps
\* the response's order.
C6_ListingDropsMarkersOnly ==
    Listed =>
        LET resp == ListObjects(cx.bucket, loc.p)
        IN  /\ \A i \in 1..Len(loc.keys) :
                  /\ loc.keys[i][Len(loc.keys[i])] # SLASH
                  /\ PosIn(resp, loc.keys[i]) > 0
            /\ \A j \in 1..Len(resp) :
                  (resp[j][Len(resp[j])] # SLASH) => PosIn(loc.keys, resp[j]) > 0
            /\ \A i1, i2 \in 1..Len(loc.keys) :
                  (i1 < i2) => PosIn(resp, loc.keys[i1]) < PosIn(resp, loc.keys[i2])

\* a listing under the prefix "a/" answered a marker and two other keys
C6_Witness ==
    /\ Listed
    /\ loc.p = <<"a", "/">>
    /\ \E j \in 1..Len(ListObjects(cx.bucket, loc.p)) :
          ListObjects(cx.bucket, loc.p)[j] = <<"a", "/">>
    /\ Len(loc.keys) = 2

\* C8: a download whose filter does not compile returns the invalid-filter
\* error with no provider call issued, no directory or file created and no
\* formatter call made.
C8_BadFilterNoWork ==
    (cx.cmd = "getFiles" /\ ~Compiles(cx.filter)) =>
        /\ calls = <<>>
        /\ dirs = {}
        /\ files = {}
        /\ out = <<>>
        /\ pc = "done" => result = errInvalidFilter

\* a download with the filter "(" over a bucket that holds objects has
\* returned
C8_Witness ==
    /\ cx.cmd = "getFiles"
    /\ cx.filter = <<"(">>
    /\ objects[cx.bucket] # {}
    /\ pc = "done"
    /\ result = errInvalidFilter

----------------------------------------------------------------------------
(* Specification of the put command *)

InitPut ==
    /\ aliases = <<>>
    /\ buckets \in SUBSET BucketNames
    /\ objects = [b \in BucketNames |-> {}]
    /\ InitCommand

NextPut ==
    \/ putCommand
    \/ putFiles
    \/ putFiles_expandFiles
    \/ putFiles_putFile

SpecPut == InitPut /\ [][NextPut]_vars

\* C7: an upload to a bucket that is not in the provider's bucket list
\* returns the bucket-not-found error, and no path is expanded, no file is
\* opened and no put-object call is issued.
C7_UploadNeedsBucket ==
    (cx.cmd = "putFiles" /\ cx.bucket \notin buckets) =>
        /\ Issued("expandFiles") = {}
        /\ Issued("Open") = {}
        /\ Issued("PutObject") = {}
        /\ puts = <<>>
        /\ (pc = "done" /\ calls[1].ok) => result = errBucketNotFound

\* an upload with a path argument to a bucket that does not exist has
\* returned after a bucket listing that succeeded
C7_Witness ==
    /\ cx.cmd = "putFiles"
    /\ cx.bucket \notin buckets
    /\ Len(cx.args) > 0
    /\ pc = "done"
    /\ calls = <<Call("ListBuckets", <<>>, TRUE)>>
    /\ result = errBucketNotFound

----------------------------------------------------------------------------
(* Specification of the commands that create and delete keys and buckets *)

InitProvider == InitKms \/ InitBucket

NextProvider == NextKms \/ NextBucket

SpecProvider == InitProvider /\ [][NextProvider]_vars

\* no alias was created by this invocation: the aliases named as at the start
NoAliasCreated == \A i \in Issued("CreateAlias") : ~calls[i].ok

\* every provider call issued so far succeeded
AllCallsOk == \A i \in 1..Len(calls) : calls[i].ok

\* C9: createKey for a name whose alias exists issues no create-key and no
\* create-alias call and returns the already-exists error; createBucket for
\* a name in the bucket list issues no create-bucket call and returns the
\* already-exists error.
C9_DuplicateCreateRefused ==
    /\ (cx.cmd = "createKey" /\ NoAliasCreated /\ Named(cx.name) # {}) =>
          /\ Issued("CreateKey") = {}
          /\ Issued("CreateAlias") = {}
          /\ (pc = "done" /\ AllCallsOk) => result \notin {"ok", "none"}
    /\ (cx.cmd = "createBucket" /\ Issued("CreateBucket") = {}
           /\ cx.bucket \in buckets /\ pc = "done" /\ AllCallsOk) =>
          result = errBucketExists

----------------------------------------------------------------------------
(* Claims about the pattern filter of the download *)

\* what the filters of the model say about the full key k: ".*" matches
\* every key, "\.t$" the keys ending in ".t", "b" the keys holding a "b"
MatchesFullKey(filter, k) ==
    CASE filter = <<".", "*">> -> TRUE
      [] filter = <<BACKSLASH, ".", "t", "$">> -> HasSuffix(k, <<".", "t">>)
      [] filter = <<"b">> -> Contains(k, "b")
      [] OTHER -> FALSE

\* C11: a listed key that passed the recursion filter is fetched and written
\* exactly when the pattern matches its full key; with the pattern "\.t$" and
\* the keys a.t and a.b, exactly a.t is fetched and written.
C11_PatternOnFullKey ==
    cx.cmd = "getFiles" =>
        /\ (loc.key # <<>> /\ loc.skip # "recursion") =>
              /\ (loc.skip = "") <=> MatchesFullKey(cx.filter, loc.key)
              /\ (loc.skip = "filter") =>
                    /\ loc.key \notin Fetched
                    /\ \A f \in files : f.content # loc.key
              /\ (loc.skip = "") =>
                    \E i \in Issued("GetObject") :
                        /\ calls[i].arg = loc.key
                        /\ \A j \in i..Len(calls) : j \notin Listings
        /\ (/\ pc = "done" /\ result = "ok" /\ cx.args = <<>>
            /\ cx.filter = <<BACKSLASH, ".", "t", "$">>
            /\ objects[cx.bucket] = {<<"a", ".", "t">>, <<"a", ".", "b">>})
              => /\ Fetched = {<<"a", ".", "t">>}
                 /\ {f.content : f \in files} = {<<"a", ".", "t">>}

\* the key a/b/t, whose base name holds no "b", was fetched and written
\* under the filter "b", and a key was dropped by the pattern filter
C11_Witness ==
    /\ cx.cmd = "getFiles"
    /\ cx.filter = <<"b">>
    /\ pc = "done"
    /\ result = "ok"
    /\ \E f \in files : f.content = <<"a", "/", "b", "/", "t">>
    /\ loc.skip = "filter"

----------------------------------------------------------------------------
(* Claims about hasKmsAlias *)

\* what resolveAlias returns for the name of the command on the listing the
\* command saw
ResolveError == getKmsAliasCall(calls[1].ok, aliases, cx.name).err

\* C12: hasKmsAlias answers "no" without an error exactly when resolveAlias
\* fails with the not-found error, answers "yes" without an error when
\* resolveAlias succeeds, and returns every other error of resolveAlias
\* unchanged.
C12_AliasExists ==
    (cx.cmd = "hasKmsAlias" /\ pc = "done") =>
        /\ (~loc.exists /\ result = "ok") <=> (ResolveError = errKmsNotFound)
        /\ (ResolveError = "nil") => (loc.exists /\ result = "ok")
        /\ (ResolveError \notin {"nil", errKmsNotFound}) =>
              (~loc.exists /\ result = ResolveError)

\* hasKmsAlias has returned the error of an alias listing that failed
C12_Witness ==
    /\ cx.cmd = "hasKmsAlias"
    /\ pc = "done"
    /\ ~calls[1].ok
    /\ result = ProviderError
    /\ Len(aliases) > 0

----------------------------------------------------------------------------
(* Specification of the edit command *)

InitEdit == InitGet

NextEdit ==
    \/ editCommand
    \/ editFile
    \/ editFile_getFileBlob
    \/ inlineEditFile
    \/ inlineEditFile_Write
    \/ inlineEditFile_Run

SpecEdit == InitEdit /\ [][NextEdit]_vars

\* the names of the temporary files created so far
TempFiles == {calls[i].arg : i \in {j \in Issued("TempFile") : calls[j].ok}}

\* inlineEditFile is running: its temporary file is created and it has not
\* returned
InInlineEditFile == pc \in {"inlineEditFile.Write", "inlineEditFile.Run"}

\* C13: once inlineEditFile has returned, whether the write failed, the
\* editor failed or the editor succeeded, no temporary file it created is
\* left.
C13_TempFileRemoved ==
    (cx.cmd = "editFile" /\ ~InInlineEditFile) =>
        \A f \in files : f.path \notin TempFiles

\* inlineEditFile has returned after it created its temporary file and the
\* editor failed
C13_Witness ==
    /\ cx.cmd = "editFile"
    /\ pc = "done"
    /\ result = errEdit
    /\ TempFiles # {}
    /\ calls[Len(calls)] = Call("Run", loc.filename, FALSE)

----------------------------------------------------------------------------
(* Claims about a download that fails *)

\* the error getFiles returns when the call op fails
ErrorOf(op) == IF op \in {"ListObjects", "GetObject"} THEN ProviderError ELSE FsError

\* the writes that succeeded so far
WritesDone == {i \in Issued("Write") : calls[i].ok}

\* the key whose content the write at position i wrote: the get-object call
\* of the same turn, three calls before it
WriteKey(i) == calls[i - 3].arg

\* the last write that succeeded on the file of the write at position i
LastWrite(i) ==
    CHOOSE j \in WritesDone :
        /\ Clean(calls[j].arg) = Clean(calls[i].arg)
        /\ \A h \in WritesDone : Clean(calls[h].arg) = Clean(calls[i].arg) => h <= j

\* the download stops at the first call that fails, with the error of that
\* call
StopsAtFirstError ==
    \A i \in 1..Len(calls) :
        ~calls[i].ok => /\ i = Len(calls)
                        /\ pc = "done"
                        /\ result = ErrorOf(calls[i].op)

\* the write that failed last was on the file at path
FailedWriteOn(path) ==
    /\ Len(calls) > 0
    /\ calls[Len(calls)] = Call("Write", calls[Len(calls)].arg, FALSE)
    /\ Clean(calls[Len(calls)].arg) = path

\* the claim as stated: the download stops at the first error and every
\* file written so far holds the content last written to it
C14_WrittenFilesKeepContent ==
    cx.cmd = "getFiles" =>
        /\ StopsAtFirstError
        /\ \A i \in WritesDone :
              \E f \in files : /\ f.path = Clean(calls[i].arg)
                               /\ f.content = WriteKey(LastWrite(i))

\* C14: a download stops at the first call that fails and returns its
\* error; every file written before is still there, and holds the content
\* last written to it unless the write that failed was on that same file.
C14_AbortKeepsWrittenFiles ==
    cx.cmd = "getFiles" =>
        /\ StopsAtFirstError
        /\ \A i \in WritesDone :
              \E f \in files : /\ f.path = Clean(calls[i].arg)
                               /\ \/ f.content = WriteKey(LastWrite(i))
                                  \/ FailedWriteOn(f.path)

\* a download has failed on its second object, after it wrote the first to
\* another file
C14_Witness ==
    /\ cx.cmd = "getFiles"
    /\ pc = "done"
    /\ result \in {ProviderError, FsError}
    /\ ~calls[Len(calls)].ok
    /\ \E i \in WritesDone : /\ ~FailedWriteOn(Clean(calls[i].arg))
                             /\ i < Len(calls)
    /\ loc.ki < Len(loc.keys)

----------------------------------------------------------------------------
(* Claims about an upload that fails *)

\* the calls named op issued so far, in order
CallsOf(op) == SelectSeq(calls, LAMBDA c : c.op = op)

\* the files the paths from position i on expand to, in order
RECURSIVE ExpandedFrom(_, _)
ExpandedFrom(paths, i) ==
    IF i > Len(paths) THEN <<>>
    ELSE expandFiles(paths[i]) \o ExpandedFrom(paths, i + 1)

\* whether sequence s starts sequence t
IsPrefix(s, t) == Len(s) <= Len(t) /\ \A i \in 1..Len(s) : s[i] = t[i]

\* the keys the put-object calls issued so far were for, in order
PutKeys == [i \in 1..Len(CallsOf("PutObject")) |-> CallsOf("PutObject")[i].arg]

\* the keys of the files the arguments expand to, in order
ExpectedKeys ==
    LET fs == ExpandedFrom(cx.args, 1)
    IN  [i \in 1..Len(fs) |-> keyName(fs[i], cx.flatten)]

\* C15: the put-object calls of an upload are one per expanded file, in
\* order; the call that fails, an expansion included, is the last call of
\* the invocation, so nothing later is put and nothing is retried; no object
\* uploaded by the invocation is deleted.
C15_UploadAbortsNoRollback ==
    cx.cmd = "putFiles" =>
        /\ IsPrefix(PutKeys, ExpectedKeys)
        /\ (pc = "done" /\ result = "ok") => PutKeys = ExpectedKeys
        /\ \A i \in 1..Len(calls) :
              ~calls[i].ok => /\ i = Len(calls)
                              /\ pc = "done"
                              /\ result \notin {"ok", "none"}
        /\ \A i \in Issued("PutObject") :
              calls[i].ok => calls[i].arg \in objects[cx.bucket]
        /\ Issued("DeleteObject") = {}
        /\ Len(puts) = Cardinality({i \in Issued("PutObject") : calls[i].ok})

\* an upload has failed on the second file of a path after the first was
\* uploaded
C15_Witness ==
    /\ cx.cmd = "putFiles"
    /\ pc = "done"
    /\ result = errPutFile
    /\ Len(puts) = 1
    /\ Len(PutKeys) = 2
    /\ ~calls[Len(calls)].ok
    /\ puts[1].key \in objects[cx.bucket]

----------------------------------------------------------------------------
(* Specification of the commands that call the formatter *)

InitCommands == InitKms \/ InitGet

NextCommands == NextKms \/ NextBucket \/ NextGet \/ NextPut

SpecCommands == InitCommands /\ [][NextCommands]_vars

\* the calls named op that succeeded so far, in order
Succeeded(op) == SelectSeq(calls, LAMBDA c : c.op = op /\ c.ok)

\* C16: the formatter is called once for every unit of work whose calls all
\* succeeded, and for no other: once per file written by a download, once
\* per object put by an upload, once when a bucket was created, once when a
\* bucket was deleted (none for the objects deleted on the way), and at
\* most once by deleteKey, after every call it issues succeeded.
C16_FormatterAfterWork ==
    /\ cx.cmd = "getFiles" =>
          /\ Len(out) = Len(Succeeded("Write"))
          /\ \A n \in 1..Len(out) :
                /\ out[n].destination = Succeeded("Write")[n].arg
                /\ out[n].source = Succeeded("GetObject")[n].arg
    /\ cx.cmd = "putFiles" =>
          /\ Len(out) = Len(Succeeded("PutObject"))
          /\ \A n \in 1..Len(out) : out[n].key = Succeeded("PutObject")[n].arg
    /\ cx.cmd = "createBucket" => Len(out) = Len(Succeeded("CreateBucket"))
    /\ cx.cmd = "deleteBucket" =>
          /\ Len(out) = Len(Succeeded("DeleteBucket"))
          /\ out # <<>> => (AllCallsOk /\ cx.bucket \notin buckets)
    /\ cx.cmd = "deleteKey" =>
          /\ Len(out) <= 1
          /\ out # <<>> =>
                /\ AllCallsOk
                /\ pc = "done"
                /\ Len(Succeeded("DeleteAlias")) = 1
                /\ cx.deletion => Len(Succeeded("ScheduleKeyDeletion")) = 1

\* a forced deleteBucket has deleted an object and has failed on the next
\* without a formatter call
C16_Witness ==
    /\ cx.cmd = "deleteBucket"
    /\ cx.force
    /\ pc = "done"
    /\ result = errRemoveFile
    /\ Len(Succeeded("DeleteObject")) = 1
    /\ out = <<>>

----------------------------------------------------------------------------
(* Claims about deleteKey *)

\* C17: an alias without a target key id is never used as a key: listKeys
\* emits no entry for it, and deleteKey never dereferences the absent id:
\* when its calls succeed it either returns an error before it issued
\* DeleteAlias or returns nil.
C17_AbsentTargetNeverUsed ==
    /\ cx.cmd = "listKeys" => \A n \in 1..Len(out) : out[n].id # NoTarget
    /\ cx.cmd = "deleteKey" =>
          /\ result # Panic
          /\ (pc = "done" /\ AllCallsOk) =>
                (result = "ok" \/ Issued("DeleteAlias") = {})

\* DeleteAlias has succeeded: the alias list is no longer the one resolved in
AliasDeleted == \E i \in Issued("DeleteAlias") : calls[i].ok

\* C18: deleteKey issues no DeleteAlias and no ScheduleKeyDeletion when the
\* listing fails or the name resolves to no alias; otherwise DeleteAlias is
\* its second call, for the alias resolved; ScheduleKeyDeletion is issued
\* only with the option set, only as the call after a DeleteAlias that
\* succeeded, and for the target key id of that alias; no key is scheduled
\* after a DeleteAlias that failed.
C18_DeleteKeyOrder ==
    cx.cmd = "deleteKey" =>
        LET r == getKmsAlias(aliases, cx.name)
            da == Issued("DeleteAlias")
            sk == Issued("ScheduleKeyDeletion")
        IN  /\ (Len(calls) >= 1 /\ ~AliasDeleted /\ (~calls[1].ok \/ r.err # "nil")) =>
                  (da = {} /\ sk = {} /\ pc # "deleteKey.DeleteAlias")
            /\ (~AliasDeleted /\ (pc = "deleteKey.DeleteAlias" \/ da # {})) =>
                  (calls[1].ok /\ r.err = "nil" /\ loc.alias = aliases[r.idx])
            /\ da # {} => (da = {2} /\ calls[2].arg = loc.alias.AliasName)
            /\ sk # {} =>
                  /\ cx.deletion
                  /\ sk = {3}
                  /\ calls[2] = Call("DeleteAlias", loc.alias.AliasName, TRUE)
                  /\ calls[3].arg = loc.alias.TargetKeyId
                  /\ calls[3].arg # NoTarget
            /\ scheduled # {} => (AliasDeleted /\ scheduled = {loc.alias.TargetKeyId})
            /\ (~AliasDeleted /\ pc = "done") => sk = {}

\* deleteKey with schedule-deletion has deleted the alias and scheduled its
\* key for deletion
C18_Witness ==
    /\ cx.cmd = "deleteKey"
    /\ cx.deletion
    /\ pc = "done"
    /\ result = "ok"
    /\ AliasDeleted
    /\ Issued("ScheduleKeyDeletion") = {3}
    /\ scheduled = {loc.alias.TargetKeyId}

----------------------------------------------------------------------------
(* Claims about the composition of the download's filters *)

\* key k passes the three filters of getFiles: no directory marker, no
\* separator in the key unless recursive is on, and the pattern matches
Survives(k) ==
    /\ ~HasSuffix(k, <<SLASH>>)
    /\ (cx.recursive \/ ~Contains(k, SLASH))
    /\ MatchesFullKey(cx.filter, k)

\* the listing is over: another listing followed or the download returned nil
ListingOver(i) ==
    \/ \E j \in Issued("ListObjects") : j > i
    \/ pc = "done" /\ result = "ok"

\* the keys of the get-object calls issued for the listing at position i, in
\* order
FetchedFor(i) ==
    LET last == IF \E j \in Issued("ListObjects") : j > i
                THEN (CHOOSE j \in Issued("ListObjects") :
                         j > i /\ \A h \in Issued("ListObjects") : h > i => j <= h)
                ELSE Len(calls) + 1
        gets == SelectSeq([n \in 1..(last - i - 1) |-> calls[i + n]],
                          LAMBDA c : c.op = "GetObject")
    IN  [n \in 1..Len(gets) |-> gets[n].arg]

====
